---- MODULE Spec2Model ----
(***************************************************************************)
(* Model of the invsto backend (src/main.py): a store of OHLCV bars keyed  *)
(* by timestamp, the HTTP handlers that write and read it, and the dual    *)
(* moving-average crossover engine of GET /strategy/performance.           *)
(*                                                                         *)
(* Numbers.  A price is held as an integer number of thousandths, so that  *)
(* "more than 2 fractional digits" is a property of the value.  The engine *)
(* works on float64: a float here is a binary64 value (sign, 53-bit        *)
(* significand, exponent; zeros, infinities and NaN), and every operation  *)
(* rounds to nearest, ties to even, as the hardware does.  Significands    *)
(* are held in limbs of 14 bits, products of two limbs being the largest   *)
(* numbers that fit a 32-bit integer.                                      *)
(***************************************************************************)
EXTENDS Integers, Sequences, FiniteSets, TLC

\* ------------------------------------------------------------------ bounds
MaxTs == 4          \* timestamps are 1..MaxTs
MaxClose == 1       \* prices posted and ingested are 0.00 .. MaxClose/100
ZeroCloseTs == 3    \* the timestamp whose bar is also posted with price 0.00
MaxSheetTs == 2     \* timestamps of the spreadsheet's rows are 1..MaxSheetTs
MaxWin == 2         \* window parameters tried by requests are -1..MaxWin
MaxBatch == 2       \* rows of the spreadsheet read by GET /init
MaxLen == 5         \* length of the series handed to the engine (EngineSpec)
MaxEngineWin == 3   \* windows handed to the engine (EngineSpec)
MaxEngineClose == 2 \* closes handed to the engine are -0.01 .. MaxEngineClose/100
NumReq == 2         \* requests in flight at once

\* --------------------------------------------------------- float64 values
\* Naturals of any size, for the 53-bit significands: a sequence of limbs of
\* LimbBits bits, least significant first, with no zero limb at the top.
LimbBits == 14
Base == 16384

Abs(x) == IF x < 0 THEN 0 - x ELSE x

\* 2^k for k up to LimbBits, and the number of bits of a limb
Pow2(k) == <<1, 2, 4, 8, 16, 32, 64, 128, 256, 512, 1024, 2048, 4096, 8192,
             16384>>[k + 1]
BitLen(n) == CHOOSE k \in 0..LimbBits : n < Pow2(k) /\ (k = 0 \/ n >= Pow2(k - 1))

RECURSIVE BNorm(_)
BNorm(a) ==
    IF a = <<>> THEN a
    ELSE IF a[Len(a)] = 0 THEN BNorm(SubSeq(a, 1, Len(a) - 1)) ELSE a

RECURSIVE BFromNat(_)
BFromNat(n) == IF n = 0 THEN <<>> ELSE <<n % Base>> \o BFromNat(n \div Base)

Limb(a, i) == IF i <= Len(a) THEN a[i] ELSE 0

RECURSIVE BAddC(_, _, _, _)
BAddC(a, b, i, c) ==
    IF i > Len(a) /\ i > Len(b) THEN (IF c = 0 THEN <<>> ELSE <<c>>)
    ELSE LET s == Limb(a, i) + Limb(b, i) + c
         IN  <<s % Base>> \o BAddC(a, b, i + 1, s \div Base)
BAdd(a, b) == BAddC(a, b, 1, 0)

\* a - b for a >= b
RECURSIVE BSubC(_, _, _, _)
BSubC(a, b, i, c) ==
    IF i > Len(a) THEN <<>>
    ELSE LET d == a[i] - Limb(b, i) - c
         IN  <<IF d < 0 THEN d + Base ELSE d>>
                 \o BSubC(a, b, i + 1, IF d < 0 THEN 1 ELSE 0)
BSub(a, b) == BNorm(BSubC(a, b, 1, 0))

\* -1, 0, 1 as a < b, a = b, a > b
RECURSIVE BCmpAt(_, _, _)
BCmpAt(a, b, i) ==
    IF i = 0 THEN 0
    ELSE IF a[i] > b[i] THEN 1
    ELSE IF a[i] < b[i] THEN 0 - 1
    ELSE BCmpAt(a, b, i - 1)
BCmp(a, b) ==
    IF Len(a) > Len(b) THEN 1
    ELSE IF Len(a) < Len(b) THEN 0 - 1
    ELSE BCmpAt(a, b, Len(a))

\* a * k for a limb k
RECURSIVE BMulC(_, _, _, _)
BMulC(a, k, i, c) ==
    IF i > Len(a) THEN (IF c = 0 THEN <<>> ELSE <<c>>)
    ELSE LET p == a[i] * k + c
         IN  <<p % Base>> \o BMulC(a, k, i + 1, p \div Base)
BMulSmall(a, k) == IF k = 0 THEN <<>> ELSE BMulC(a, k, 1, 0)

BShiftLimbs(a, n) == IF a = <<>> THEN a ELSE [i \in 1..n |-> 0] \o a

RECURSIVE BMulAt(_, _, _)
BMulAt(a, b, j) ==
    IF j > Len(b) THEN <<>>
    ELSE BAdd(BShiftLimbs(BMulSmall(a, b[j]), j - 1), BMulAt(a, b, j + 1))
BMul(a, b) == BMulAt(a, b, 1)

\* a * 2^n and floor(a / 2^n)
BShl(a, n) == BShiftLimbs(BMulSmall(a, Pow2(n % LimbBits)), n \div LimbBits)

RECURSIVE BDivAt(_, _, _, _)
BDivAt(a, k, i, r) ==
    IF i = 0 THEN <<>>
    ELSE LET cur == r * Base + a[i]
         IN  BDivAt(a, k, i - 1, cur % k) \o <<cur \div k>>
BShr(a, n) ==
    LET drop == n \div LimbBits
    IN  IF drop >= Len(a) THEN <<>>
        ELSE LET top == SubSeq(a, drop + 1, Len(a))
             IN  BNorm(BDivAt(top, Pow2(n % LimbBits), Len(top), 0))

BBitLen(a) ==
    IF a = <<>> THEN 0 ELSE LimbBits * (Len(a) - 1) + BitLen(a[Len(a)])
BOdd(a) == a # <<>> /\ a[1] % 2 = 1

\* long division of r * Base^n by d, for r < d and the top limb of d at least
\* Base/2: n limbs of quotient and the remainder.  Each limb is estimated from
\* the two top limbs of the dividend and the top limb of d, which is the limb
\* or up to 2 more, and corrected.
Estimate(a, d) ==
    LET est == (Limb(a, Len(d) + 1) * Base + Limb(a, Len(d))) \div d[Len(d)]
    IN  IF est >= Base THEN Base - 1 ELSE est
RECURSIVE BDigit(_, _, _)
BDigit(a, d, q) == IF BCmp(BMulSmall(d, q), a) > 0 THEN BDigit(a, d, q - 1) ELSE q
RECURSIVE BDivLimbs(_, _, _)
BDivStep(a, d, n, digit) ==
    LET rest == BDivLimbs(BSub(a, BMulSmall(d, digit)), d, n - 1)
    IN  [q |-> rest.q \o <<digit>>, r |-> rest.r]
BDivShifted(a, d, n) == BDivStep(a, d, n, BDigit(a, d, Estimate(a, d)))
BDivLimbs(r, d, n) ==
    IF n = 0 THEN [q |-> <<>>, r |-> r] ELSE BDivShifted(BShiftLimbs(r, 1), d, n)

\* (a + f) / 2^n rounded to the nearest natural, ties to even, where f is a
\* fraction in (0, 1) if sticky and 0 if not; m is floor(a / 2^n) and c compares
\* the bits shifted out with one half
BNearest(m, c, sticky) ==
    IF c > 0 \/ (c = 0 /\ (sticky \/ BOdd(m))) THEN BAdd(m, <<1>>) ELSE m
BShrFloor(a, n, sticky, m) ==
    BNearest(m, BCmp(BSub(a, BShl(m, n)), BShl(<<1>>, n - 1)), sticky)
BShrNearest(a, n, sticky) == BShrFloor(a, n, sticky, BShr(a, n))

\* A float64 is NaN, an infinity, a zero or a finite value
\* (-1)^s * m * 2^e, the significand m of Precision bits (fewer only at the
\* least exponent MinExp, the subnormals).
Precision == 53
MinExp == 0 - 1074
MaxExp == 971

NaN == [k |-> "nan", s |-> 0, e |-> 0, m |-> <<>>]
Inf(s) == [k |-> "inf", s |-> s, e |-> 0, m |-> <<>>]
SignedZero(s) == [k |-> "zero", s |-> s, e |-> 0, m |-> <<>>]
Zero == SignedZero(0)
Finite(s, e, m) ==
    IF e > MaxExp THEN Inf(s) ELSE [k |-> "num", s |-> s, e |-> e, m |-> m]

IsNaN(x) == x.k = "nan"
IsFinite(x) == x.k \in {"zero", "num"}

\* the float64 nearest to (-1)^s * (n + f) * 2^e, ties to even, where f is a
\* fraction in (0, 1) if sticky and 0 if not: the exponent q of the last place,
\* the significand rounded to it, and one bit less when rounding carries
Exponent(n, e) ==
    LET q == e + BBitLen(n) - Precision
    IN  IF q < MinExp THEN MinExp ELSE q
Rounded(s, q, m) ==
    IF m = <<>> THEN SignedZero(s)
    ELSE IF BBitLen(m) > Precision THEN Finite(s, q + 1, BShr(m, 1))
    ELSE Finite(s, q, m)
PackAt(s, n, e, sticky, q) ==
    IF q <= e THEN Finite(s, q, BShl(n, e - q))
    ELSE Rounded(s, q, BShrNearest(n, q - e, sticky))
Pack(s, n, e, sticky) ==
    IF n = <<>> THEN SignedZero(s) ELSE PackAt(s, n, e, sticky, Exponent(n, e))

\* float(n) of an integer
FromInt(n) == Pack(IF n < 0 THEN 1 ELSE 0, BFromNat(Abs(n)), 0, FALSE)

One == FromInt(1)

FNeg(x) == IF IsNaN(x) THEN x ELSE [x EXCEPT !.s = 1 - x.s]

FMul(x, y) ==
    LET s == (x.s + y.s) % 2
    IN  IF IsNaN(x) \/ IsNaN(y) THEN NaN
        ELSE IF x.k = "inf" \/ y.k = "inf"
        THEN (IF x.k = "zero" \/ y.k = "zero" THEN NaN ELSE Inf(s))
        ELSE IF x.k = "zero" \/ y.k = "zero" THEN SignedZero(s)
        ELSE Pack(s, BMul(x.m, y.m), x.e + y.e, FALSE)

\* x / y: both significands are scaled to QuotientLimbs full limbs (mx, my), and
\* as many limbs of quotient follow the integer part `int`: more than Precision
\* bits, the remainder deciding what lies beyond them
QuotientLimbs == 4
FDivLong(s, int, d, e) == Pack(s, BNorm(d.q \o <<int>>), e, d.r # <<>>)
FDivFrom(s, mx, my, e, ge) ==
    FDivLong(s, IF ge THEN 1 ELSE 0,
             BDivLimbs(IF ge THEN BSub(mx, my) ELSE mx, my, QuotientLimbs), e)
FDiv(x, y) ==
    LET s == (x.s + y.s) % 2
    IN  IF IsNaN(x) \/ IsNaN(y) THEN NaN
        ELSE IF x.k = "inf" THEN (IF y.k = "inf" THEN NaN ELSE Inf(s))
        ELSE IF y.k = "inf" THEN SignedZero(s)
        ELSE IF y.k = "zero" THEN (IF x.k = "zero" THEN NaN ELSE Inf(s))
        ELSE IF x.k = "zero" THEN SignedZero(s)
        ELSE LET ax == QuotientLimbs * LimbBits - BBitLen(x.m)
                 ay == QuotientLimbs * LimbBits - BBitLen(y.m)
             IN  FDivFrom(s, BShl(x.m, ax), BShl(y.m, ay),
                          (x.e - ax) - (y.e - ay) - QuotientLimbs * LimbBits,
                          BCmp(BShl(x.m, ax), BShl(y.m, ay)) >= 0)

\* x / float(k) for an integer k in 1..Base-1: short division of a, the
\* significand with two limbs more
FDivShort(x, k, a, q) == Pack(x.s, q, x.e - 2 * LimbBits, BMulSmall(q, k) # a)
FDivLimb(x, k, a) == FDivShort(x, k, a, BNorm(BDivAt(a, k, Len(a), 0)))
FDivInt(x, k) == IF x.k # "num" THEN x ELSE FDivLimb(x, k, BShiftLimbs(x.m, 2))

\* x + y for finite non-zero x, y with |y| less than a quarter of the last place
\* of x: y only decides the side of a tie
FAddTiny(x, y) ==
    Pack(x.s, IF x.s = y.s THEN BShl(x.m, 2) ELSE BSub(BShl(x.m, 2), <<1>>),
         x.e - 2, TRUE)

\* x + y for finite non-zero x, y brought to the exponent e (nx, ny), c comparing
\* nx with ny
FAddAligned(x, y, nx, ny, e, c) ==
    IF x.s # y.s /\ c = 0 THEN Zero
    ELSE Pack(IF x.s = y.s \/ c > 0 THEN x.s ELSE y.s,
              IF x.s = y.s THEN BAdd(nx, ny)
              ELSE IF c > 0 THEN BSub(nx, ny) ELSE BSub(ny, nx),
              e, FALSE)

FAdd(x, y) ==
    IF IsNaN(x) \/ IsNaN(y) THEN NaN
    ELSE IF x.k = "inf" THEN (IF y.k = "inf" /\ y.s # x.s THEN NaN ELSE x)
    ELSE IF y.k = "inf" THEN y
    ELSE IF x.k = "zero" /\ y.k = "zero" THEN SignedZero(IF x.s = 1 /\ y.s = 1 THEN 1 ELSE 0)
    ELSE IF x.k = "zero" THEN y
    ELSE IF y.k = "zero" THEN x
    ELSE IF x.e - y.e > Precision + 2 \/ y.e - x.e > Precision + 2
    THEN FAddTiny(IF x.e > y.e THEN x ELSE y, IF x.e > y.e THEN y ELSE x)
    ELSE LET e == IF x.e < y.e THEN x.e ELSE y.e
         IN  FAddAligned(x, y, BShl(x.m, x.e - e), BShl(y.m, y.e - e), e,
                         BCmp(BShl(x.m, x.e - e), BShl(y.m, y.e - e)))

FSub(x, y) == FAdd(x, FNeg(y))

\* x == y, x > y and x < y on floats: false whenever an operand is NaN
FEq(x, y) ==
    /\ ~IsNaN(x) /\ ~IsNaN(y)
    /\ x = y \/ (x.k = "zero" /\ y.k = "zero")
FGt(x, y) ==
    IF IsNaN(x) \/ IsNaN(y) \/ FEq(x, y) THEN FALSE
    ELSE IF x.k = "zero" THEN (y.k # "zero" /\ y.s = 1)
    ELSE IF y.k = "zero" THEN x.s = 0
    ELSE IF x.s # y.s THEN x.s = 0
    ELSE LET above == IF x.k = "inf" THEN TRUE
                      ELSE IF y.k = "inf" THEN FALSE
                      ELSE x.e > y.e \/ (x.e = y.e /\ BCmp(x.m, y.m) > 0)
         IN  IF x.s = 0 THEN above ELSE ~above
FLt(x, y) == FGt(y, x)

\* the float of the quotient n/d of two integers
Num(n, d) == FDiv(FromInt(n), FromInt(d))

\* numpy.rint: the nearest integer, ties to even, with the sign of x
Rint(x) ==
    IF x.k # "num" \/ x.e >= 0 THEN x
    ELSE IF 0 - x.e > Precision + 1 THEN SignedZero(x.s)
    ELSE Pack(x.s, BShrNearest(x.m, 0 - x.e, FALSE), 0, FALSE)

\* round(x, 4) of a numpy float64: rint(x * 10^4) / 10^4
RoundDigits == 4
RECURSIVE Pow10(_)
Pow10(k) == IF k = 0 THEN 1 ELSE 10 * Pow10(k - 1)
RoundTo(x, scale) == FDiv(Rint(FMul(x, scale)), scale)
Round4(x) == RoundTo(x, FromInt(Pow10(RoundDigits)))

\* ------------------------------------------------- pandas, as main.py uses it
Bar(dt, o, h, l, c, v) ==
    [datetime |-> dt, open |-> o, high |-> h, low |-> l, close |-> c, volume |-> v]

PriceCols == {"open", "high", "low", "close"}
NumericCols == PriceCols \cup {"volume"}

\* pd.to_numeric of a stored price (thousandths) and of a stored volume
ToNumeric(col, v) == Num(v, IF col = "volume" THEN 1 ELSE 1000)

\* a frame built row by row, as the sequence of its rows
AsSeq(df) == SubSeq(df, 1, Len(df))

\* df.dropna(): the rows with no NaN in any of the float columns `cols`
DropNa(df, cols) == SelectSeq(df, LAMBDA row : \A c \in cols : ~IsNaN(row[c]))

\* rolling(window).mean() is pandas' roll_mean: a running sum kept over the
\* window with Kahan compensation (one compensation for the values that enter,
\* one for those that leave), the count of negative values, and the length of
\* the run of equal values that ends at the last one.
RollStart(first) ==
    [nobs |-> 0, sum_x |-> Zero, neg_ct |-> 0, compensation_add |-> Zero,
     compensation_remove |-> Zero, num_consecutive_same_value |-> 0,
     prev_value |-> first]

\* one step of Kahan summation, y the value less the compensation so far and
\* t the new sum: t = sum_x + y; compensation = t - sum_x - y; sum_x = t
KahanSum(sum_x, y, t) == [sum_x |-> t, compensation |-> FSub(FSub(t, sum_x), y)]
Kahan(sum_x, y) == KahanSum(sum_x, y, FAdd(sum_x, y))

Added(st, val, k) ==
    [st EXCEPT !.nobs = @ + 1,
               !.compensation_add = k.compensation,
               !.sum_x = k.sum_x,
               !.neg_ct = @ + val.s,
               !.num_consecutive_same_value =
                    IF FEq(val, st.prev_value) THEN @ + 1 ELSE 1,
               !.prev_value = val]
add_mean(st, val) == Added(st, val, Kahan(st.sum_x, FSub(val, st.compensation_add)))

Removed(st, val, k) ==
    [st EXCEPT !.nobs = @ - 1,
               !.compensation_remove = k.compensation,
               !.sum_x = k.sum_x,
               !.neg_ct = @ - val.s]
remove_mean(st, val) ==
    Removed(st, val, Kahan(st.sum_x, FSub(FNeg(val), st.compensation_remove)))

Mean(st, mean) ==
    IF st.num_consecutive_same_value >= st.nobs THEN st.prev_value
    ELSE IF st.neg_ct = 0 /\ FLt(mean, Zero) THEN Zero
    ELSE IF st.neg_ct = st.nobs /\ FGt(mean, Zero) THEN Zero
    ELSE mean
calc_mean(st, minp) ==
    IF st.nobs >= minp /\ st.nobs > 0
    THEN Mean(st, FDivInt(st.sum_x, st.nobs))
    ELSE NaN

\* the state of roll_mean after each of the first n values: the window of row i
\* is rows i-window+1 .. i; it is set up afresh at the first row and when it
\* shares no row with the window before, else the row that left is removed and
\* row i is added
RECURSIVE RollStates(_, _, _)
RollNext(values, window, n, before) ==
    LET s == IF n > window THEN n - window + 1 ELSE 1
    IN  Append(before,
               add_mean(IF n = 1 \/ s >= n THEN RollStart(values[s])
                        ELSE IF n > window
                        THEN remove_mean(before[n - 1], values[n - window])
                        ELSE before[n - 1],
                        values[n]))
RollStates(values, window, n) ==
    IF n = 0 THEN <<>> ELSE RollNext(values, window, n, RollStates(values, window, n - 1))

roll_mean(values, window) ==
    LET states == RollStates(values, window, Len(values))
    IN  AsSeq([i \in 1..Len(values) |-> calc_mean(states[i], window)])

Closes(df) == [i \in 1..Len(df) |-> df[i].close]

\* df["close"].rolling(window).mean() at row i: NaN until the window is full
RollingMean(df, i, window) == roll_mean(Closes(df), window)[i]

\* variant: no lag, every row is given its own signal
ShiftOwn(df, i) == FromInt(df[i].signal)
\* series.shift() of an integer column: a float column, NaN first
Shift(df, i) == IF i = 1 THEN NaN ELSE FromInt(df[i - 1].signal)

\* df["close"].pct_change() at row i: close[i] / close[i-1] - 1, NaN first
PctChange(df, i) ==
    IF i = 1 THEN NaN ELSE FSub(FDiv(df[i].close, df[i - 1].close), One)

\* series.prod() of the first n values: NaN counts as 1 (skipna), the others are
\* multiplied in order
RECURSIVE Prod(_, _)
Prod(s, n) ==
    IF n = 0 THEN One
    ELSE FMul(Prod(s, n - 1), IF IsNaN(s[n]) THEN One ELSE s[n])

CountPosition(df, v) == Cardinality({i \in 1..Len(df) : df[i].position = FromInt(v)})

\* -------------------------------------- the stages of moving_average_strategy
\* lines 164-172: DataFrame(rows), to_numeric on the numeric columns, dropna
df_clean(rows) ==
    DropNa([i \in 1..Len(rows) |->
              [col \in NumericCols |-> ToNumeric(col, rows[i][col])] @@ rows[i]],
           NumericCols)

\* variant: a bar is kept as soon as its long mean is defined
df_ma_long_only(df, short_window, long_window) ==
    LET short_ma == roll_mean(Closes(df), short_window)
        long_ma == roll_mean(Closes(df), long_window)
    IN  DropNa([i \in 1..Len(df) |->
                  df[i] @@ [short_ma |-> short_ma[i], long_ma |-> long_ma[i]]],
               NumericCols \cup {"long_ma"})
\* lines 179-181: both rolling means on the cleaned frame, then dropna: the kept
\* bars
df_ma(df, short_window, long_window) ==
    LET short_ma == roll_mean(Closes(df), short_window)
        long_ma == roll_mean(Closes(df), long_window)
    IN  DropNa([i \in 1..Len(df) |->
                  df[i] @@ [short_ma |-> short_ma[i], long_ma |-> long_ma[i]]],
               NumericCols \cup {"short_ma", "long_ma"})

\* variant: >= in place of >
SignalOfGe(row) == IF FLt(row.short_ma, row.long_ma) THEN 0 - 1 ELSE 1
\* lines 186-188: signal 0, +1 where short_ma > long_ma, -1 where short_ma < long_ma
SignalOf(row) ==
    IF FLt(row.short_ma, row.long_ma) THEN 0 - 1
    ELSE IF FGt(row.short_ma, row.long_ma) THEN 1 ELSE 0

df_signal(df) ==
    AsSeq([i \in 1..Len(df) |-> df[i] @@ [signal |-> SignalOf(df[i])]])

\* lines 190-191: position = signal.shift(), then dropna: the retained rows
df_position(df) ==
    DropNa([i \in 1..Len(df) |-> df[i] @@ [position |-> Shift(df, i)]],
           NumericCols \cup {"short_ma", "long_ma", "position"})

\* lines 193-194: returns over the retained rows, and strategy_returns
StrategyReturn(position, returns) == FMul(position, returns)

WithReturns(row, returns) ==
    row @@ [returns |-> returns,
            strategy_returns |-> StrategyReturn(row.position, returns)]
df_returns(df) == AsSeq([i \in 1..Len(df) |-> WithReturns(df[i], PctChange(df, i))])

\* variant: the returns are added up, not compounded
cumulative_return_sum(df) ==
    LET RECURSIVE Sum(_)
        Sum(n) == IF n = 0 THEN Zero
                  ELSE IF IsNaN(df[n].strategy_returns) THEN Sum(n - 1)
                  ELSE FAdd(Sum(n - 1), df[n].strategy_returns)
    IN  Sum(Len(df))
\* line 196: (df["strategy_returns"] + 1).prod() - 1
cumulative_return(df) ==
    FSub(Prod([i \in 1..Len(df) |-> FAdd(df[i].strategy_returns, One)], Len(df)),
         One)

\* variant: only the buys are counted as trades
TotalTradesBuys(buy_signals, sell_signals) == buy_signals
\* lines 197-206: the PerformanceSummary
TotalTrades(buy_signals, sell_signals) == buy_signals + sell_signals

PerformanceSummary(df, buy_signals, sell_signals) ==
    [kind |-> "summary",
     buy_signals |-> buy_signals,
     sell_signals |-> sell_signals,
     total_trades |-> TotalTrades(buy_signals, sell_signals),
     cumulative_return |-> Round4(cumulative_return(df)),
     data_points |-> Len(df)]
Summary(df) == PerformanceSummary(df, CountPosition(df, 1), CountPosition(df, 0 - 1))

\* the informational responses of lines 162, 175 and 184
Message(text, n) == [kind |-> "message", text |-> text, n |-> n]

\* variant: only the empty result is refused
TooFewRowsEmpty(rows, long_window) == Len(rows) = 0
\* line 161: not rows or len(rows) < long_window
TooFewRows(rows, long_window) == Len(rows) = 0 \/ Len(rows) < long_window

\* lines 161-206 on the fetched rows: the value returned, with the frame as it
\* is after line 188 (kept) and at line 200 (df); both empty when a message is
\* returned before they exist.  Each step takes the frame the step before made.
NoFrames(reply) == [reply |-> reply, kept |-> <<>>, df |-> <<>>]
\* lines 196-206
run_summary(kept, df) == [reply |-> Summary(df), kept |-> kept, df |-> df]
\* lines 190-194
run_position(kept) == run_summary(kept, df_returns(df_position(kept)))
\* lines 183-188
run_signal(ma) ==
    IF Len(ma) = 0
    THEN NoFrames(Message("Not enough data to calculate moving averages", 0))
    ELSE run_position(df_signal(ma))
\* lines 174-181
run_ma(clean, short_window, long_window) ==
    IF Len(clean) < long_window
    THEN NoFrames(Message("Not enough valid data after filtering. Have N rows.",
                          Len(clean)))
    ELSE run_signal(df_ma(clean, short_window, long_window))
run_engine(rows, short_window, long_window) ==
    IF TooFewRows(rows, long_window)
    THEN NoFrames(Message("Not enough valid data. Need at least N rows.",
                          long_window))
    ELSE run_ma(df_clean(rows), short_window, long_window)

\* the value moving_average_strategy returns for the fetched rows
signal_engine(rows, short_window, long_window) ==
    run_engine(rows, short_window, long_window).reply
\* ------------------------------------------------------------ request inputs
Requests == 1..NumReq
Timestamps == 1..MaxTs
\* the prices with at most 2 fractional digits, in thousandths, and those a
\* bar of timestamp dt is posted with
Prices == {10 * c : c \in 0..MaxClose}
PostedPrices(dt) == IF dt = ZeroCloseTs THEN Prices ELSE Prices \ {0}

\* a field of a JSON body: absent, of the wrong type, a value, or a number
\* that json reads as a float that is not finite (1e400, Infinity, NaN with
\* sign 1; -1e400 with sign -1)
Field(v) == [tag |-> "value", v |-> v]
MissingField == [tag |-> "missing", v |-> 0]
WrongType == [tag |-> "invalid", v |-> 0]
NonFinite(sign) == [tag |-> "nonfinite", v |-> sign]

\* lines 31-37, StockData: every field required and of its type, prices with at
\* most decimal_places fractional digits, volume >= 0
DecimalPlaces == 2
ValidPrice(f) == f.tag = "value" /\ f.v % Pow10(3 - DecimalPlaces) = 0
ValidVolume(f) == f.tag = "value" /\ f.v >= 0
ValidStockData(body) ==
    /\ body.datetime.tag = "value"
    /\ \A c \in PriceCols : ValidPrice(body[c])
    /\ ValidVolume(body.volume)

\* the validated model: the bar the handler receives
StockData(body) ==
    Bar(body.datetime.v, body.open.v, body.high.v, body.low.v, body.close.v,
        body.volume.v)

GoodBodies ==
    UNION {{[datetime |-> Field(dt), open |-> Field(c), high |-> Field(c),
             low |-> Field(c), close |-> Field(c), volume |-> Field(0)] :
               c \in PostedPrices(dt)} : dt \in Timestamps}
\* a good body with one field absent, of the wrong type, not finite, with a
\* third fractional digit, or negative
BadBodies ==
    LET base == {g \in GoodBodies : g.datetime.v = 1 /\ g.close.v = 10 * MaxClose}
    IN  {[b EXCEPT ![col] = bad] :
            b \in base, col \in NumericCols \cup {"datetime"},
            bad \in {MissingField, WrongType, NonFinite(1), NonFinite(0 - 1)}}
        \cup {[b EXCEPT ![col] = Field(b[col].v + 5)] : b \in base, col \in PriceCols}
        \cup {[b EXCEPT !.volume = Field(0 - 1)] : b \in base}
Bodies == GoodBodies \cup BadBodies

\* the 422 body quotes the input of every field that failed; json.dumps
\* (allow_nan=False) raises on a float that is not finite
JsonCompliantBody(body) == \A col \in DOMAIN body : body[col].tag # "nonfinite"

\* lines 151-152: Query(default, gt=0)
DefaultShortWindow == 5
DefaultLongWindow == 20
NoParam == [given |-> FALSE, v |-> 0]
Param(v) == [given |-> TRUE, v |-> v]
QueryParams == {NoParam} \cup {Param(v) : v \in (0 - 1)..MaxWin}
QueryValue(p, default) == IF p.given THEN p.v ELSE default
ValidWindow(w) == w > 0

\* ------------------------------------------------------------------ responses
Response(status, body) == [status |-> status, body |-> body]
NoResponse == Response(0, [kind |-> "none"])
Rejected == Response(422, [kind |-> "validation"])
\* an exception that leaves the handler: HTTPException(500) or an unhandled one
Failure(detail) == Response(500, [kind |-> "error", detail |-> detail])
Ok(body) == Response(200, body)
\* the response cannot be rendered as JSON: the server answers 500
Unserialisable == Failure("Out of range float values are not JSON compliant")
\* ------------------------------------------------------- the spreadsheet
\* A cell of data.xlsx: a value, a cell that is blank or does not parse (NaT or
\* NaN after errors="coerce"), a cell repeating the column's name (a header-like
\* row), or the text "inf", which pd.to_numeric reads as float infinity.  The
\* sheet is not validated as StockData: the row of the last timestamp carries a
\* negative volume.
HeaderCell == [tag |-> "header", v |-> 0]
InfCell == [tag |-> "inf", v |-> 0]
FlatRow(dt, c, v) ==
    [datetime |-> dt, open |-> c, high |-> c, low |-> c, close |-> c, volume |-> v]
SheetRows ==
    {FlatRow(Field(dt), Field(10 * MaxClose),
             Field(IF dt = MaxSheetTs THEN 0 - 1 ELSE 0)) : dt \in 1..MaxSheetTs}
    \cup {FlatRow(WrongType, Field(10), Field(0)),
          [FlatRow(Field(1), Field(10), Field(0)) EXCEPT !.close = MissingField],
          FlatRow(HeaderCell, HeaderCell, HeaderCell),
          FlatRow(Field(1), Field(10), InfCell)}
RECURSIVE SeqsUpTo(_, _)
SeqsUpTo(S, n) ==
    IF n = 0 THEN {<<>>}
    ELSE LET shorter == SeqsUpTo(S, n - 1)
         IN  shorter \cup {Append(q, x) : q \in shorter, x \in S}
Sheets ==
    {[readable |-> FALSE, columns |-> TRUE, rows |-> <<>>],
     [readable |-> TRUE, columns |-> FALSE, rows |-> <<>>]}
    \cup {[readable |-> TRUE, columns |-> TRUE, rows |-> q] :
            q \in SeqsUpTo(SheetRows, MaxBatch)}

\* lines 68-78: drop header-like rows, rows whose datetime is NaT, rows with a NaN
Cleaned(rows) ==
    SelectSeq(rows, LAMBDA row :
        /\ \A col \in DOMAIN row : row[col].tag # "header"
        /\ row.datetime.tag = "value"
        /\ \A col \in NumericCols : row[col].tag \in {"value", "inf"})

\* lines 98-103: float() of the prices and int() of the volume; int(inf) raises
Converts(row) == row.volume.tag # "inf"
RowBar(row) ==
    Bar(row.datetime.v, row.open.v, row.high.v, row.low.v, row.close.v,
        row.volume.v)

\* line 117: df.head(3).to_dict("records"), and whether json.dumps renders it
SampleRows == 3
sample_data(df) ==
    SubSeq(df, 1, IF Len(df) < SampleRows THEN Len(df) ELSE SampleRows)
JsonCompliantRows(rows) ==
    \A i \in 1..Len(rows) : \A col \in NumericCols : rows[i][col].tag # "inf"

\* ------------------------------------------------------------------- state
VARIABLES
    store,          \* the committed rows of table stock_data
    pc,             \* where each request's handler stands
    request,        \* the request being handled
    conn,           \* the handler's connection: "none", "open" or "closed"
    txn,            \* its transaction: "none", "active", "aborted" or "lost"
    pending,        \* the rows its transaction inserted and has not committed
    todo,           \* init_db: the rows of df the loop has not reached
    inserted_rows,  \* init_db: inserted_rows
    rowcount,       \* cur.rowcount of the last INSERT
    resp,           \* the response sent
    series,         \* EngineSpec: the rows fetched
    windows,        \* EngineSpec: <<short_window, long_window>>
    result,         \* EngineSpec: the value returned for them
    df_signalled,   \* EngineSpec: df after line 188, the kept bars
    df_retained     \* EngineSpec: df at line 200, the retained rows

vars == <<store, pc, request, conn, txn, pending, todo, inserted_rows, rowcount,
          resp, series, windows, result, df_signalled, df_retained>>
apiVars == <<store, pc, request, conn, txn, pending, todo, inserted_rows,
             rowcount, resp>>
engineVars == <<series, windows, result, df_signalled, df_retained>>

NoRequest == [kind |-> "none"]
NoResult == [kind |-> "none"]

\* ------------------------------------------------------------ the store
\* SELECT ... ORDER BY datetime ASC
RECURSIVE Ascending(_)
Ascending(S) ==
    IF S = {} THEN <<>>
    ELSE LET first == CHOOSE b \in S : \A o \in S : b.datetime <= o.datetime
         IN  <<first>> \o Ascending(S \ {first})

\* INSERT ... ON CONFLICT (datetime) DO NOTHING in the transaction of request r:
\* the row conflicts with a committed row or a row of its own transaction
Conflict(r, bar) == \E b \in store \cup pending[r] : b.datetime = bar.datetime
\* cur.rowcount after the INSERT
RowCount(r, bar) == IF Conflict(r, bar) THEN 0 ELSE 1
\* variant: a plain INSERT, the row is added whatever is stored
InsertedAlways(r, bar) == pending[r] \cup {bar}
\* the rows of the transaction after the INSERT
Inserted(r, bar) == IF Conflict(r, bar) THEN pending[r] ELSE pending[r] \cup {bar}
\* variant: no wait on an uncommitted row with the same key
WaitsNever(r, bar) == FALSE
\* the unique index makes the INSERT wait while another open transaction holds
\* an uncommitted row with the same key
Waits(r, bar) ==
    \E o \in Requests \ {r} : \E b \in pending[o] : b.datetime = bar.datetime

\* variant: rollback keeps the rows of the transaction
RollbackKeeps(r) == store \cup pending[r]
\* conn.commit() and conn.rollback(): the table afterwards
Commit(r) == store \cup pending[r]
Rollback(r) == store

\* the outcomes of a statement sent to the database: it runs, the server rejects
\* it (a constraint violation: the transaction is aborted), or the connection is
\* lost
Outcomes == {"ok", "error", "lost"}
\* ------------------------------------------------------------------ actions
ApiInit ==
    /\ store = {}
    /\ pc = [r \in Requests |-> "idle"]
    /\ request = [r \in Requests |-> NoRequest]
    /\ conn = [r \in Requests |-> "none"]
    /\ txn = [r \in Requests |-> "none"]
    /\ pending = [r \in Requests |-> {}]
    /\ todo = [r \in Requests |-> <<>>]
    /\ inserted_rows = [r \in Requests |-> 0]
    /\ rowcount = [r \in Requests |-> 0]
    /\ resp = [r \in Requests |-> NoResponse]

Init ==
    /\ ApiInit
    /\ series = <<>>
    /\ windows = <<1, 1>>
    /\ result = NoResult
    /\ df_signalled = <<>>
    /\ df_retained = <<>>

\* the handler returns or raises: the response goes out
Reply(r, response) ==
    /\ pc' = [pc EXCEPT ![r] = "done"]
    /\ resp' = [resp EXCEPT ![r] = response]

\* get_connection(): a connection with a transaction of its own
Connect(r) ==
    /\ conn' = [conn EXCEPT ![r] = "open"]
    /\ txn' = [txn EXCEPT ![r] = "active"]

\* conn.close(); the transaction is over
Close(r) ==
    /\ conn' = [conn EXCEPT ![r] = "closed"]
    /\ txn' = [txn EXCEPT ![r] = "none"]

\* lines 120-124, POST /data: the body is validated before the handler runs
add_stock_data(r, body) ==
    /\ pc[r] = "idle"
    /\ request' = [request EXCEPT ![r] = [kind |-> "POST /data", body |-> body]]
    /\ IF ~ValidStockData(body)
       THEN /\ Reply(r, IF JsonCompliantBody(body) THEN Rejected
                        ELSE Unserialisable)
            /\ UNCHANGED <<conn, txn>>
       ELSE /\ pc' = [pc EXCEPT ![r] = "post_execute"]
            /\ Connect(r)
            /\ UNCHANGED resp
    /\ UNCHANGED <<store, pending, todo, inserted_rows, rowcount>>
    /\ UNCHANGED engineVars

\* lines 139-144: except: conn.rollback(), raise; finally: close
PostFails(r, outcome) ==
    /\ store' = Rollback(r)
    /\ pending' = [pending EXCEPT ![r] = {}]
    /\ Close(r)
    /\ Reply(r, Failure(IF outcome = "lost" THEN "unhandled" ELSE "HTTPException"))

\* lines 125-137: cur.execute(INSERT ...)
post_execute(r, outcome) ==
    /\ pc[r] = "post_execute"
    /\ LET stock == StockData(request[r].body)
       IN  IF outcome = "ok"
           THEN /\ ~Waits(r, stock)
                /\ pending' = [pending EXCEPT ![r] = Inserted(r, stock)]
                /\ rowcount' = [rowcount EXCEPT ![r] = RowCount(r, stock)]
                /\ pc' = [pc EXCEPT ![r] = "post_commit"]
                /\ UNCHANGED <<store, conn, txn, resp>>
           ELSE /\ PostFails(r, outcome)
                /\ UNCHANGED rowcount
    /\ UNCHANGED <<request, todo, inserted_rows>>
    /\ UNCHANGED engineVars

\* lines 138-146: conn.commit(), close, the confirmation
post_commit(r, outcome) ==
    /\ pc[r] = "post_commit"
    /\ outcome # "error"
    /\ IF outcome = "ok"
       THEN /\ store' = Commit(r)
            /\ pending' = [pending EXCEPT ![r] = {}]
            /\ Close(r)
            /\ Reply(r, Ok([kind |-> "message",
                            text |-> "Stock data added successfully", n |-> 0]))
       ELSE PostFails(r, outcome)
    /\ UNCHANGED <<request, todo, inserted_rows, rowcount>>
    /\ UNCHANGED engineVars

InitError(text) == Ok([kind |-> "error", error |-> text])

\* lines 50-90, GET /init: read and clean data.xlsx, connect
init_db(r, sheet) ==
    /\ pc[r] = "idle"
    /\ request' = [request EXCEPT ![r] =
                     [kind |-> "GET /init", df |-> Cleaned(sheet.rows)]]
    /\ IF ~sheet.readable \/ ~sheet.columns \/ Cleaned(sheet.rows) = <<>>
       THEN /\ Reply(r, InitError(
                    IF ~sheet.readable THEN "Failed to read Excel file"
                    ELSE IF ~sheet.columns THEN "Missing required columns"
                    ELSE "No valid data remaining after cleaning"))
            /\ UNCHANGED <<conn, txn, todo>>
       ELSE /\ pc' = [pc EXCEPT ![r] = "init_loop"]
            /\ Connect(r)
            /\ todo' = [todo EXCEPT ![r] = Cleaned(sheet.rows)]
            /\ UNCHANGED resp
    /\ inserted_rows' = [inserted_rows EXCEPT ![r] = 0]
    /\ UNCHANGED <<store, pending, rowcount>>
    /\ UNCHANGED engineVars

\* lines 91-108: one turn of the loop over df
init_row(r, outcome) ==
    /\ pc[r] = "init_loop"
    /\ todo[r] # <<>>
    /\ todo' = [todo EXCEPT ![r] = Tail(todo[r])]
    /\ LET row == Head(todo[r])
       IN  IF ~Converts(row) \/ txn[r] # "active"
           THEN \* int() raises, or the statement is refused: the transaction is
                \* aborted or the connection lost; except: continue
                /\ outcome = "ok"
                /\ UNCHANGED <<pending, rowcount, inserted_rows, txn>>
           ELSE IF outcome = "ok"
           THEN /\ ~Waits(r, RowBar(row))
                /\ pending' = [pending EXCEPT ![r] = Inserted(r, RowBar(row))]
                /\ rowcount' = [rowcount EXCEPT ![r] = RowCount(r, RowBar(row))]
                /\ inserted_rows' = [inserted_rows EXCEPT
                                       ![r] = @ + RowCount(r, RowBar(row))]
                /\ UNCHANGED txn
           ELSE \* the statement fails: the server aborts the transaction and
                \* discards its rows; except: continue
                /\ pending' = [pending EXCEPT ![r] = {}]
                /\ txn' = [txn EXCEPT ![r] = IF outcome = "error" THEN "aborted"
                                              ELSE "lost"]
                /\ UNCHANGED <<rowcount, inserted_rows>>
    /\ UNCHANGED <<store, pc, request, conn, resp>>
    /\ UNCHANGED engineVars

\* lines 110-118: conn.commit(), close, the counts with the first rows of df.
\* COMMIT of an aborted transaction rolls it back and raises nothing; on a lost
\* connection it raises, and lines 111-112 are not reached.
init_commit(r, outcome) ==
    /\ pc[r] = "init_loop"
    /\ todo[r] = <<>>
    /\ outcome # "error"
    /\ pending' = [pending EXCEPT ![r] = {}]
    /\ IF txn[r] = "lost" \/ outcome = "lost"
       THEN /\ store' = Rollback(r)
            /\ txn' = [txn EXCEPT ![r] = "none"]
            /\ Reply(r, Failure("unhandled"))
            /\ UNCHANGED conn
       ELSE /\ store' = IF txn[r] = "active" THEN Commit(r) ELSE Rollback(r)
            /\ Close(r)
            /\ Reply(r, IF JsonCompliantRows(sample_data(request[r].df))
                        THEN Ok([kind |-> "init", status |-> "success",
                                 rows_inserted |-> inserted_rows[r]])
                        ELSE Unserialisable)
    /\ UNCHANGED <<request, todo, inserted_rows, rowcount>>
    /\ UNCHANGED engineVars

\* line 39, response_model=List[StockData]: the rows the handler returns are
\* validated as StockData before they are sent
ValidRows(rows) ==
    \A i \in 1..Len(rows) :
        ValidStockData([col \in DOMAIN rows[i] |-> Field(rows[i][col])])

\* lines 39-47, GET /data: a returned row that is not a StockData raises after
\* the connection is closed
get_data(r, outcome) ==
    /\ pc[r] = "idle"
    /\ request' = [request EXCEPT ![r] = [kind |-> "GET /data"]]
    /\ IF outcome = "ok"
       THEN /\ Reply(r, IF ValidRows(Ascending(store))
                        THEN Ok([kind |-> "rows", rows |-> Ascending(store)])
                        ELSE Failure("ResponseValidationError"))
            /\ conn' = [conn EXCEPT ![r] = "closed"]
       ELSE \* cur.execute raises (the statement is rejected or the connection
            \* lost): there is no try/finally, lines 45-46 are not reached
            /\ Reply(r, Failure("unhandled"))
            /\ conn' = [conn EXCEPT ![r] = "open"]
    /\ UNCHANGED <<store, txn, pending, todo, inserted_rows, rowcount>>
    /\ UNCHANGED engineVars

\* the rows GET /strategy/performance can fetch and the windows it can be
\* given, and signal_engine tabulated over them
StoredBars ==
    UNION {{Bar(dt, c, c, c, c, 0) : c \in PostedPrices(dt)} : dt \in Timestamps}
    \cup {RowBar(row) : row \in {s \in SheetRows : Cleaned(<<s>>) # <<>> /\ Converts(s)}}
FetchableRows ==
    {Ascending(S) :
        S \in {T \in SUBSET StoredBars :
                  \A a \in T : \A b \in T : a.datetime = b.datetime => a = b}}
WindowValues ==
    {w \in {QueryValue(p, d) :
                p \in QueryParams, d \in {DefaultShortWindow, DefaultLongWindow}} :
        ValidWindow(w)}
signal_table ==
    [rows \in FetchableRows, short_window \in WindowValues,
     long_window \in WindowValues |->
        signal_engine(rows, short_window, long_window)]
performance(rows, short_window, long_window) ==
    IF <<rows, short_window, long_window>> \in DOMAIN signal_table
    THEN signal_table[rows, short_window, long_window]
    ELSE signal_engine(rows, short_window, long_window)

\* json.dumps of the returned dict raises when cumulative_return is not finite
JsonCompliantReply(reply) ==
    reply.kind = "summary" => IsFinite(reply.cumulative_return)

\* lines 149-209, GET /strategy/performance: the windows are validated before
\* the handler runs; finally: conn.close()
moving_average_strategy(r, short, long, outcome) ==
    /\ pc[r] = "idle"
    /\ request' = [request EXCEPT ![r] =
                     [kind |-> "GET /strategy/performance",
                      short_window |-> short, long_window |-> long]]
    /\ LET short_window == QueryValue(short, DefaultShortWindow)
           long_window == QueryValue(long, DefaultLongWindow)
       IN  IF ~ValidWindow(short_window) \/ ~ValidWindow(long_window)
           THEN /\ outcome = "ok"
                /\ Reply(r, Rejected)
                /\ UNCHANGED conn
           ELSE /\ conn' = [conn EXCEPT ![r] = "closed"]
                /\ Reply(r, IF outcome = "ok"
                            THEN LET reply == performance(Ascending(store),
                                                          short_window, long_window)
                                 IN  IF JsonCompliantReply(reply) THEN Ok(reply)
                                     ELSE Unserialisable
                            ELSE Failure("unhandled"))
    /\ UNCHANGED <<store, txn, pending, todo, inserted_rows, rowcount>>
    /\ UNCHANGED engineVars

\* the response is delivered; the worker takes the next request
finish(r) ==
    /\ pc[r] = "done"
    /\ pc' = [pc EXCEPT ![r] = "idle"]
    /\ request' = [request EXCEPT ![r] = NoRequest]
    /\ conn' = [conn EXCEPT ![r] = "none"]
    /\ resp' = [resp EXCEPT ![r] = NoResponse]
    /\ inserted_rows' = [inserted_rows EXCEPT ![r] = 0]
    /\ rowcount' = [rowcount EXCEPT ![r] = 0]
    /\ UNCHANGED <<store, txn, pending, todo>>
    /\ UNCHANGED engineVars

Next ==
    \E r \in Requests :
        \/ \E body \in Bodies : add_stock_data(r, body)
        \/ \E outcome \in Outcomes : post_execute(r, outcome)
        \/ \E outcome \in Outcomes : post_commit(r, outcome)
        \/ \E sheet \in Sheets : init_db(r, sheet)
        \/ \E outcome \in Outcomes : init_row(r, outcome)
        \/ \E outcome \in Outcomes : init_commit(r, outcome)
        \/ \E outcome \in Outcomes : get_data(r, outcome)
        \/ \E short \in QueryParams, long \in QueryParams, outcome \in Outcomes :
               moving_average_strategy(r, short, long, outcome)
        \/ finish(r)

Spec == Init /\ [][Next]_vars

\* ------------------------------------------------ the engine on its own
\* The rows moving_average_strategy can fetch: ascending timestamps, any closes.
EnginePrices == {10 * c : c \in (0 - 1)..MaxEngineClose}
EngineSeries ==
    {[i \in 1..Len(q) |-> Bar(i, q[i], q[i], q[i], q[i], 0)] :
        q \in SeqsUpTo(EnginePrices, MaxLen)}

EngineInit ==
    /\ ApiInit
    /\ series \in EngineSeries
    /\ windows \in (1..MaxEngineWin) \X (1..MaxEngineWin)
    /\ result = NoResult
    /\ df_signalled = <<>>
    /\ df_retained = <<>>

\* lines 161-206 on the fetched rows
engine_run ==
    /\ result = NoResult
    /\ LET run == run_engine(series, windows[1], windows[2])
       IN  /\ result' = run.reply
           /\ df_signalled' = run.kept
           /\ df_retained' = run.df
    /\ UNCHANGED <<series, windows>>
    /\ UNCHANGED apiVars

EngineSpec == EngineInit /\ [][engine_run]_vars
\* ------------------------------------------------------ claims on the engine
Ran == result # NoResult
AllCloses(c) == \A i \in 1..Len(series) : series[i].close = c

\* C1: whenever fewer bars are stored than long_window (an empty store included),
\* the handler returns the informational message that names long_window as the
\* minimum, never a PerformanceSummary.
C1_InsufficientData ==
    (Ran /\ Len(series) < windows[2]) =>
        result = Message("Not enough valid data. Need at least N rows.", windows[2])

C1_Witness == Ran /\ Len(series) = 2 /\ windows[2] = 3 /\ result.kind = "message"

\* C7: a retained row whose previous close is zero is left out of the
\* compounding, so cumulative_return is the product over the other rows and is
\* never infinite or NaN.
ZeroCloseExcluded(df) ==
    [i \in 1..Len(df) |->
        IF i > 1 /\ FEq(df[i - 1].close, Zero)
        THEN [df[i] EXCEPT !.strategy_returns = NaN] ELSE df[i]]

C7_ZeroCloseHandled ==
    (Ran /\ result.kind = "summary") =>
        /\ IsFinite(result.cumulative_return)
        /\ result.cumulative_return =
              Round4(cumulative_return(ZeroCloseExcluded(df_retained)))

\* C8: the retained rows are the kept bars after the first; each carries the
\* signal of the kept bar just before it as its position, one of -1, 0, +1; the
\* first kept bar is dropped.
C8_PositionIsLaggedSignal ==
    (Ran /\ result.kind = "summary") =>
        /\ Len(df_retained) = Len(df_signalled) - 1
        /\ result.data_points = Len(df_signalled) - 1
        /\ \A i \in 1..Len(df_retained) :
              /\ df_retained[i].datetime = df_signalled[i + 1].datetime
              /\ df_retained[i].position = Num(df_signalled[i].signal, 1)
              /\ df_retained[i].position \in {Num(0 - 1, 1), Zero, One}

C8_Witness ==
    /\ Ran /\ result.kind = "summary"
    /\ \E i \in 1..Len(df_retained) :
          df_retained[i].position # Num(df_retained[i].signal, 1)
    /\ \E i \in 1..Len(df_retained) : df_retained[i].position = Num(0 - 1, 1)

\* C9: in every PerformanceSummary total_trades = buy_signals + sell_signals,
\* buy_signals counting the retained rows with position +1 and sell_signals
\* those with position -1.
C9_TotalTrades ==
    (Ran /\ result.kind = "summary") =>
        /\ result.total_trades = result.buy_signals + result.sell_signals
        /\ result.buy_signals =
              Cardinality({i \in 1..Len(df_retained) :
                              FEq(df_retained[i].position, One)})
        /\ result.sell_signals =
              Cardinality({i \in 1..Len(df_retained) :
                              FEq(df_retained[i].position, FNeg(One))})

C9_Witness ==
    Ran /\ result.kind = "summary" /\ result.buy_signals = 1
        /\ result.sell_signals = 1 /\ result.total_trades = 2

\* C10: when every close is the same non-zero value and a PerformanceSummary is
\* produced, every defined rolling mean is that value, every kept bar has signal
\* 0, there are no buys, sells or trades, and cumulative_return is 0.0.
C10_FlatSeries ==
    \A c \in EnginePrices \ {0} :
        (Ran /\ result.kind = "summary" /\ AllCloses(c)) =>
            /\ LET df == df_clean(series)
               IN  \A i \in 1..Len(df) : \A w \in {windows[1], windows[2]} :
                      LET mean == RollingMean(df, i, w)
                      IN  IsNaN(mean) \/ FEq(mean, Num(c, 1000))
            /\ \A i \in 1..Len(df_signalled) :
                  /\ FEq(df_signalled[i].short_ma, Num(c, 1000))
                  /\ FEq(df_signalled[i].long_ma, Num(c, 1000))
                  /\ df_signalled[i].signal = 0
            /\ result.buy_signals = 0 /\ result.sell_signals = 0
            /\ result.total_trades = 0
            /\ FEq(result.cumulative_return, Zero)

C10_Witness ==
    /\ Ran /\ result.kind = "summary" /\ AllCloses(10 * MaxEngineClose)
    /\ windows[1] # windows[2] /\ result.data_points >= 2

\* C11: cumulative_return before rounding is the compounded product, minus 1, of
\* 1 + position[i] * period_return[i] over the retained rows after the first,
\* period_return[i] being the change of the close against the retained row
\* before it, close[i] / close[i-1] - 1 in float64; the first retained row is
\* not measured against the dropped bar and gives no factor. (A factor that is
\* not a number, a flat position on the bar after a zero close, is not
\* compounded either.)
PeriodReturn(df, i) == FSub(FDiv(df[i].close, df[i - 1].close), One)
Factor(df, i) == FAdd(FMul(df[i].position, PeriodReturn(df, i)), One)
\* the factors of rows 2..n, multiplied in the order of the rows
RECURSIVE Compound(_, _)
Compound(df, n) ==
    IF n < 2 THEN One
    ELSE LET f == Factor(df, n)
         IN  IF IsNaN(f) THEN Compound(df, n - 1) ELSE FMul(Compound(df, n - 1), f)

C11_CompoundedReturn ==
    (Ran /\ result.kind = "summary") =>
        LET unrounded == cumulative_return(df_retained)
        IN  /\ unrounded = FSub(Compound(df_retained, Len(df_retained)), One)
            /\ result.cumulative_return = Round4(unrounded)

\* two compounded factors other than 1, and a first retained row that holds a
\* position while its close differs from the dropped bar's
C11_Witness ==
    /\ Ran /\ result.kind = "summary"
    /\ Len(df_retained) >= 3
    /\ df_retained[1].position # Zero
    /\ df_retained[1].close # df_signalled[1].close
    /\ \A i \in 2..3 :
          LET f == Factor(df_retained, i)
          IN  IsFinite(f) /\ f # One /\ f # Zero

\* C12: a bar is kept only if both rolling means are defined, whichever window
\* is the larger: with n valid bars and n >= max(short_window, long_window), the
\* first max - 1 bars are dropped for windowing and one more for the lag, the
\* others are retained, and data_points = n - max(short_window, long_window).
Max(a, b) == IF a >= b THEN a ELSE b
Datetimes(df) == [i \in 1..Len(df) |-> df[i].datetime]
C12_DataPoints ==
    LET bars == df_clean(series)
        n == Len(bars)
        m == Max(windows[1], windows[2])
    IN  (Ran /\ n >= m) =>
            /\ result.kind = "summary"
            /\ result.data_points = n - m
            /\ \A i \in 1..Len(df_signalled) :
                  ~IsNaN(df_signalled[i].short_ma) /\ ~IsNaN(df_signalled[i].long_ma)
            /\ Datetimes(df_signalled) = Datetimes(SubSeq(bars, m, n))
            /\ Datetimes(df_retained) = Datetimes(SubSeq(bars, m + 1, n))

\* the short window is the larger one and bars remain
C12_Witness ==
    /\ Ran /\ result.kind = "summary"
    /\ windows[1] > windows[2]
    /\ Len(series) > windows[1]
    /\ result.data_points = Len(series) - windows[1]
    /\ result.data_points >= 2

\* C13: whenever no bar remains after windowing and lag trimming, the handler
\* returns an informational message and not a PerformanceSummary: every
\* PerformanceSummary has data_points >= 1.
C13_SummaryHasDataPoints ==
    Ran =>
        /\ Len(df_retained) = 0 => result.kind = "message"
        /\ result.kind = "summary" => result.data_points >= 1
\* --------------------------------------------------- claims on the handlers
Stock(r) == StockData(request[r].body)
HasTimestamp(rows, dt) == \E b \in rows : b.datetime = dt

\* the INSERT of request r runs in this step (the server neither rejects it nor
\* is the connection lost), for the bar InsertArg(r)
PostInsertRuns(r) == pc[r] = "post_execute" /\ pc'[r] = "post_commit"
InitInsertRuns(r) ==
    /\ pc[r] = "init_loop" /\ todo[r] # <<>> /\ todo'[r] = Tail(todo[r])
    /\ Converts(Head(todo[r])) /\ txn[r] = "active" /\ txn'[r] = "active"
InsertArg(r) == IF pc[r] = "post_execute" THEN Stock(r) ELSE RowBar(Head(todo[r]))

\* C2: an INSERT (of POST /data or of a row of GET /init) whose timestamp is
\* already stored changes nothing: cur.rowcount is 0, nothing is added to
\* inserted_rows or to the transaction, no error arises; and in every step the
\* rows of a stored timestamp stay exactly the rows they were.
C2_DuplicateIsNoOp ==
    [][/\ \A r \in Requests :
             ((PostInsertRuns(r) \/ InitInsertRuns(r))
                 /\ HasTimestamp(store, InsertArg(r).datetime)) =>
                /\ rowcount'[r] = 0
                /\ inserted_rows'[r] = inserted_rows[r]
                /\ pending'[r] = pending[r]
                /\ txn'[r] = txn[r]
                /\ resp'[r] = resp[r]
                /\ store' = store
       /\ \A dt \in Timestamps :
             HasTimestamp(store, dt) =>
                {b \in store' : b.datetime = dt} = {b \in store : b.datetime = dt}
      ]_vars

C2_Witness ==
    \E r \in Requests :
        /\ pc[r] = "post_commit" /\ rowcount[r] = 0 /\ pending[r] = {}
        /\ \E b \in store :
              b.datetime = Stock(r).datetime /\ b.close # Stock(r).close

\* C3: no two stored bars have the same timestamp.
C3_UniqueTimestamps ==
    \A a \in store : \A b \in store : a.datetime = b.datetime => a = b

\* two transactions meet on one timestamp: one holds the uncommitted row, the
\* other is about to insert a different bar with the same key
C3_Witness ==
    \E r1 \in Requests : \E r2 \in Requests \ {r1} :
        /\ pc[r2] = "post_execute"
        /\ \E b \in pending[r1] :
              b.datetime = Stock(r2).datetime /\ b.close # Stock(r2).close
        /\ store # {}

\* C4: a POST /data body with a missing field, a negative volume (a finite one
\* or -1e400) or a price with a third fractional digit, and a
\* GET /strategy/performance with a window <= 0, is answered 422 at once: no
\* connection or transaction is opened and the table and the open transactions
\* are as before.
FaultyBody(body) ==
    \/ \E col \in DOMAIN body : body[col].tag = "missing"
    \/ body.volume.tag \in {"value", "nonfinite"} /\ body.volume.v < 0
    \/ \E col \in PriceCols : body[col].tag = "value" /\ body[col].v % 10 # 0

NonPositive(p) == p.given /\ p.v <= 0

InvalidRequest(req) ==
    \/ req.kind = "POST /data" /\ FaultyBody(req.body)
    \/ /\ req.kind = "GET /strategy/performance"
       /\ (NonPositive(req.short_window) \/ NonPositive(req.long_window))

C4_RejectedBeforeStore ==
    [][\A r \in Requests :
          (pc[r] = "idle" /\ pc'[r] # "idle" /\ InvalidRequest(request'[r])) =>
             /\ pc'[r] = "done"
             /\ resp'[r] = Rejected
             /\ conn'[r] = "none"
             /\ txn'[r] = "none"
             /\ store' = store
             /\ pending' = pending
      ]_vars

\* C5: when the INSERT of POST /data raises, or its commit does, the step that
\* handles the error leaves the table as it was, keeps no row of the
\* transaction, and answers 500 instead of the confirmation.
C5_FailedWriteRolledBack ==
    [][\A r \in Requests :
          /\ (pc[r] = "post_execute" /\ pc'[r] = "done") =>
                /\ store' = store
                /\ pending'[r] = {}
                /\ resp'[r].status = 500 /\ resp'[r].body.kind = "error"
          /\ (pc[r] = "post_commit" /\ pc'[r] = "done") =>
                \/ /\ resp'[r].status = 200
                   /\ store' = store \cup pending[r]
                \/ /\ resp'[r].status = 500 /\ resp'[r].body.kind = "error"
                   /\ store' = store
                   /\ pending'[r] = {}
      ]_vars

C5_Witness ==
    \E r \in Requests :
        /\ pc[r] = "done" /\ request[r].kind = "POST /data"
        /\ ValidStockData(request[r].body)
        /\ resp[r].status = 500
        /\ ~HasTimestamp(store, Stock(r).datetime)
        /\ store # {}

\* C6: GET /init is best-effort row by row: when it answers with its counts,
\* rows_inserted is the number of rows the request added to the table, also when
\* the INSERT of one of its rows failed.
C6_InitCountsRowsAdded ==
    [][\A r \in Requests :
          (pc[r] = "init_loop" /\ pc'[r] = "done" /\ resp'[r].status = 200) =>
             resp'[r].body.rows_inserted = Cardinality(store' \ store)
      ]_vars

\* C14: every request that opened a connection has released it when it ends,
\* also when a query, an insert or a commit raised: no request ends with its
\* connection open.
C14_ConnectionReleased ==
    \A r \in Requests : pc[r] \in {"idle", "done"} => conn[r] # "open"
====
